---- MODULE Spec2Model ----
(***************************************************************************)
(* A model of the requiem lexer (src/lexer.rs): the logos token rules of   *)
(* `Token`, the two callbacks, and the `tokenize` driver with its paren    *)
(* counters.                                                               *)
(*                                                                         *)
(* An input is a sequence of characters, each character its Unicode code   *)
(* point (40 is '(', 48 is '0', 97 is 'a', ...).  A call of `tokenize` is  *)
(* identified by a call id; every call owns its input, its cursor (the     *)
(* lexer's token_end), its token vector and its two counters; shown holds  *)
(* the Display text of the tokens the call returned, once formatted.       *)
(***************************************************************************)
EXTENDS Integers, Sequences, FiniteSets, TLC

VARIABLES input, cursor, tokens, open, close, pc, result, shown

vars == <<input, cursor, tokens, open, close, pc, result, shown>>

(***************************************************************************)
(* Bounds of the model.                                                    *)
(***************************************************************************)
\* Inputs of Spec are concatenations of at most MaxPieces pieces of Pool.
MaxPieces == 3
\* Inputs of SpecWs hold at most MaxWsLexemes lexemes of WsPool.
MaxWsLexemes == 2

\* Inputs of SpecPair are concatenations of at most MaxPairPieces pieces of
\* PairPool.
MaxPairPieces == 2

\* TerminalId = u16: the largest value, u16::MAX.
MaxTerminalId == 65535

(***************************************************************************)
(* Character classes of the token rules.                                   *)
(***************************************************************************)
\* #[logos(skip r"[ \t\n\f]+")]: space, tab, line feed, form feed.
IsWhitespaceWithCR(ch) == ch \in {32, 9, 10, 12, 13}
IsWhitespaceNoFormFeed(ch) == ch \in {32, 9, 10}
IsWhitespace(ch) == ch \in {32, 9, 10, 12}

\* "[0-9]+"
IsDigit(ch) == ch \in 48..57

\* r"[a-zA-Z]+"
IsAlpha(ch) == ch \in 65..90 \/ ch \in 97..122

\* The end (0-based, exclusive) of the maximal run of digits, letters or
\* whitespace that starts at 0-based offset from: logos matches a `+` rule
\* greedily.
\* The digit rule is [0-9] instead of [0-9]+.
DigitRunEndOne(s, from) == from + 1
RECURSIVE DigitRunEnd(_, _)
DigitRunEnd(s, from) ==
    IF from < Len(s) /\ IsDigit(s[from + 1]) THEN DigitRunEnd(s, from + 1) ELSE from

RECURSIVE AlphaRunEnd(_, _)
AlphaRunEnd(s, from) ==
    IF from < Len(s) /\ IsAlpha(s[from + 1]) THEN AlphaRunEnd(s, from + 1) ELSE from

\* The skip rule matches the empty string.
WhitespaceRunEndEmpty(s, from) == from
RECURSIVE WhitespaceRunEnd(_, _)
WhitespaceRunEnd(s, from) ==
    IF from < Len(s) /\ IsWhitespace(s[from + 1])
    THEN WhitespaceRunEnd(s, from + 1)
    ELSE from

Slice(s, from, to) == SubSeq(s, from + 1, to)

(***************************************************************************)
(* The callback of the digit rule: TerminalId::from_str_radix(slice, 10).  *)
(* core's from_str_radix folds the digits left to right with checked       *)
(* multiplication and addition and fails with PosOverflow.                 *)
(***************************************************************************)
RECURSIVE ParseDigits(_, _, _, _)
ParseDigits(s, i, acc, max) ==
    IF i > Len(s) THEN [ok |-> TRUE, val |-> acc]
    ELSE LET d == s[i] - 48
         IN  IF acc * 10 > max \/ acc * 10 + d > max
             THEN [ok |-> FALSE, kind |-> "PosOverflow"]
             ELSE ParseDigits(s, i + 1, acc * 10 + d, max)

\* Wrapping arithmetic instead of checked arithmetic.
RECURSIVE ParseDigitsWrapping(_, _, _)
ParseDigitsWrapping(s, i, acc) ==
    IF i > Len(s) THEN [ok |-> TRUE, val |-> acc]
    ELSE ParseDigitsWrapping(s, i + 1, (acc * 10 + (s[i] - 48)) % (MaxTerminalId + 1))

from_str_radix_wrapping(s) == ParseDigitsWrapping(s, 1, 0)
\* TerminalId declared i16 instead of u16.
from_str_radix_i16(s) == ParseDigits(s, 1, 0, 32767)
\* The range check is by the length of the run.
from_str_radix_by_length(s) ==
    IF Len(s) > 5 THEN [ok |-> FALSE, kind |-> "PosOverflow"]
    ELSE ParseDigits(s, 1, 0, MaxTerminalId)
from_str_radix(s) ==
    IF Len(s) = 0 THEN [ok |-> FALSE, kind |-> "Empty"]
    ELSE ParseDigits(s, 1, 0, MaxTerminalId)

(***************************************************************************)
(* The callback of the letter rule: uppercase the slice, then              *)
(* Gate::from_str (strum EnumString, serialize_all = "UPPERCASE").         *)
(***************************************************************************)
to_uppercase_char_identity(ch) == ch
to_uppercase_char(ch) == IF ch \in 97..122 THEN ch - 32 ELSE ch

to_uppercase(s) == [i \in 1..Len(s) |-> to_uppercase_char(s[i])]

\* The serialized names of the six variants of Gate.
GateName(g) ==
    CASE g = "And"  -> <<65, 78, 68>>          \* AND
      [] g = "Or"   -> <<79, 82>>              \* OR
      [] g = "Not"  -> <<78, 79, 84>>          \* NOT
      [] g = "Nand" -> <<78, 65, 78, 68>>      \* NAND
      [] g = "Nor"  -> <<78, 79, 82>>          \* NOR
      [] g = "Xor"  -> <<88, 79, 82>>          \* XOR

Gate == {"And", "Or", "Not", "Nand", "Nor", "Xor"}

\* Gate::from_str: the variant whose serialized name is s, if any.
Gate_from_str(s) ==
    IF \E g \in Gate : GateName(g) = s
    THEN [ok |-> TRUE, gate |-> CHOOSE g \in Gate : GateName(g) = s]
    ELSE [ok |-> FALSE]

\* The payload is the slice as typed instead of gate_str.
GateCallbackAsTyped(slice) ==
    LET r == Gate_from_str(to_uppercase(slice))
    IN  IF r.ok THEN [ok |-> TRUE, gate |-> r.gate]
        ELSE [ok |-> FALSE, err |-> [type |-> "NoSuchGate", text |-> slice]]
GateCallback(slice) ==
    LET gate_str == to_uppercase(slice)
        r == Gate_from_str(gate_str)
    IN  IF r.ok THEN [ok |-> TRUE, gate |-> r.gate]
        ELSE [ok |-> FALSE, err |-> [type |-> "NoSuchGate", text |-> gate_str]]

(***************************************************************************)
(* Display.  Gate and Token both derive strum's Display: the text of a     *)
(* value is the serialized name of its variant, and the fields of a        *)
(* variant are not part of it.  Gate serializes its names in upper case;   *)
(* Token has no serialize attribute, so its names are the identifiers.     *)
(***************************************************************************)
Gate_to_string(g) == GateName(g)

Token_to_string(token) ==
    CASE token.type = "ParenOpen"  -> <<80, 97, 114, 101, 110, 79, 112, 101, 110>>
      [] token.type = "ParenClose" -> <<80, 97, 114, 101, 110, 67, 108, 111, 115, 101>>
      [] token.type = "TerminalId" -> <<84, 101, 114, 109, 105, 110, 97, 108, 73, 100>>
      [] token.type = "Gate"       -> <<71, 97, 116, 101>>

(***************************************************************************)
(* One match of the generated lexer at 0-based offset pos < Len(s):        *)
(*   [kind |-> "skip",  end]             a whitespace run                  *)
(*   [kind |-> "token", token, end]      Ok(token)                         *)
(*   [kind |-> "error", err, end]        Err(err)                          *)
(***************************************************************************)
Lex(s, pos) ==
    LET ch == s[pos + 1]
    IN  IF ch = 40 THEN
            [kind |-> "token", token |-> [type |-> "ParenOpen"], end |-> pos + 1]
        ELSE IF ch = 41 THEN
            [kind |-> "token", token |-> [type |-> "ParenClose"], end |-> pos + 1]
        ELSE IF IsDigit(ch) THEN
            LET e == DigitRunEnd(s, pos)
                r == from_str_radix(Slice(s, pos, e))
            IN  IF r.ok
                THEN [kind |-> "token",
                      token |-> [type |-> "TerminalId", id |-> r.val], end |-> e]
                ELSE [kind |-> "error",
                      err |-> [type |-> "ParseIntError", kind |-> r.kind], end |-> e]
        ELSE IF IsAlpha(ch) THEN
            LET e == AlphaRunEnd(s, pos)
                r == GateCallback(Slice(s, pos, e))
            IN  IF r.ok
                THEN [kind |-> "token",
                      token |-> [type |-> "Gate", gate |-> r.gate], end |-> e]
                ELSE [kind |-> "error", err |-> r.err, end |-> e]
        ELSE IF IsWhitespace(ch) THEN
            [kind |-> "skip", end |-> WhitespaceRunEnd(s, pos)]
        ELSE
            \* no rule matches: LexingError::default()
            [kind |-> "error", err |-> [type |-> "Other"], end |-> pos + 1]

(***************************************************************************)
(* tokenize                                                                *)
(***************************************************************************)
Calls == DOMAIN input

AtEnd(c) == cursor[c] = Len(input[c])

\* `if open != close`
BalancedNesting(o, cl) == o >= cl
BalancedNonEmpty(o, cl) == o = cl /\ o > 0
Balanced(o, cl) == o = cl

\* The state on entry to the loop: lexer at offset 0, `tokens` empty,
\* (open, close) = (0, 0).
Start(inputs) ==
    /\ input = inputs
    /\ cursor = [c \in DOMAIN inputs |-> 0]
    /\ tokens = [c \in DOMAIN inputs |-> <<>>]
    /\ open = [c \in DOMAIN inputs |-> 0]
    /\ close = [c \in DOMAIN inputs |-> 0]
    /\ pc = [c \in DOMAIN inputs |-> "scan"]
    /\ result = [c \in DOMAIN inputs |-> [kind |-> "none"]]
    /\ shown = [c \in DOMAIN inputs |-> [kind |-> "none"]]

\* The lexer skips a whitespace run and goes on to the next match.
SkipWhitespace(c) ==
    /\ pc[c] = "scan"
    /\ ~AtEnd(c)
    /\ LET m == Lex(input[c], cursor[c])
       IN  /\ m.kind = "skip"
           /\ cursor' = [cursor EXCEPT ![c] = m.end]
    /\ UNCHANGED <<shown, input, tokens, open, close, pc, result>>

\* open and close are statics shared by all calls instead of locals.
PushTokenSharedCounters(c) ==
    /\ pc[c] = "scan"
    /\ ~AtEnd(c)
    /\ LET m == Lex(input[c], cursor[c])
       IN  /\ m.kind = "token"
           /\ cursor' = [cursor EXCEPT ![c] = m.end]
           /\ open' = [d \in Calls |->
                         IF m.token.type = "ParenOpen" THEN open[d] + 1 ELSE open[d]]
           /\ close' = [d \in Calls |->
                         IF m.token.type = "ParenClose" THEN close[d] + 1 ELSE close[d]]
           /\ tokens' = [tokens EXCEPT ![c] = Append(@, m.token)]
    /\ UNCHANGED <<shown, input, pc, result>>
\* The token is inserted at the front of the vector.
PushTokenFront(c) ==
    /\ pc[c] = "scan"
    /\ ~AtEnd(c)
    /\ LET m == Lex(input[c], cursor[c])
       IN  /\ m.kind = "token"
           /\ cursor' = [cursor EXCEPT ![c] = m.end]
           /\ open' = [open EXCEPT ![c] =
                         IF m.token.type = "ParenOpen" THEN @ + 1 ELSE @]
           /\ close' = [close EXCEPT ![c] =
                         IF m.token.type = "ParenClose" THEN @ + 1 ELSE @]
           /\ tokens' = [tokens EXCEPT ![c] = <<m.token>> \o @]
    /\ UNCHANGED <<shown, input, pc, result>>
\* Both parens are counted in open.
PushTokenOpenOnly(c) ==
    /\ pc[c] = "scan"
    /\ ~AtEnd(c)
    /\ LET m == Lex(input[c], cursor[c])
       IN  /\ m.kind = "token"
           /\ cursor' = [cursor EXCEPT ![c] = m.end]
           /\ open' = [open EXCEPT ![c] =
                         IF m.token.type \in {"ParenOpen", "ParenClose"}
                         THEN @ + 1 ELSE @]
           /\ close' = close
           /\ tokens' = [tokens EXCEPT ![c] = Append(@, m.token)]
    /\ UNCHANGED <<shown, input, pc, result>>
\* The lexer yields Ok(token): count a paren, push the token.
\* (open and close are i32; no input here comes near 2^31 parens.)
PushToken(c) ==
    /\ pc[c] = "scan"
    /\ ~AtEnd(c)
    /\ LET m == Lex(input[c], cursor[c])
       IN  /\ m.kind = "token"
           /\ cursor' = [cursor EXCEPT ![c] = m.end]
           /\ open' = [open EXCEPT ![c] =
                         IF m.token.type = "ParenOpen" THEN @ + 1 ELSE @]
           /\ close' = [close EXCEPT ![c] =
                         IF m.token.type = "ParenClose" THEN @ + 1 ELSE @]
           /\ tokens' = [tokens EXCEPT ![c] = Append(@, m.token)]
    /\ UNCHANGED <<shown, input, pc, result>>

\* The lexer yields Err(e): `token?` returns Err(e) from tokenize.
ReturnLexErrorBalanceFirst(c) ==
    /\ pc[c] = "scan"
    /\ ~AtEnd(c)
    /\ LET m == Lex(input[c], cursor[c])
       IN  /\ m.kind = "error"
           /\ cursor' = [cursor EXCEPT ![c] = m.end]
           /\ result' = [result EXCEPT ![c] =
                           [kind |-> "Err",
                            err |-> IF open[c] # close[c]
                                    THEN [type |-> "ParenCountMismatch"]
                                    ELSE m.err]]
    /\ pc' = [pc EXCEPT ![c] = "done"]
    /\ UNCHANGED <<shown, input, tokens, open, close>>
\* The failing lexeme is dropped and the scan goes on.
ReturnLexErrorRecover(c) ==
    /\ pc[c] = "scan"
    /\ ~AtEnd(c)
    /\ LET m == Lex(input[c], cursor[c])
       IN  /\ m.kind = "error"
           /\ cursor' = [cursor EXCEPT ![c] = m.end]
    /\ UNCHANGED <<shown, input, tokens, open, close, pc, result>>
ReturnLexError(c) ==
    /\ pc[c] = "scan"
    /\ ~AtEnd(c)
    /\ LET m == Lex(input[c], cursor[c])
       IN  /\ m.kind = "error"
           /\ cursor' = [cursor EXCEPT ![c] = m.end]
           /\ result' = [result EXCEPT ![c] = [kind |-> "Err", err |-> m.err]]
    /\ pc' = [pc EXCEPT ![c] = "done"]
    /\ UNCHANGED <<shown, input, tokens, open, close>>

\* The lexer is exhausted and the counters differ.
ReturnParenCountMismatch(c) ==
    /\ pc[c] = "scan"
    /\ AtEnd(c)
    /\ ~Balanced(open[c], close[c])
    /\ result' = [result EXCEPT ![c] =
                    [kind |-> "Err", err |-> [type |-> "ParenCountMismatch"]]]
    /\ pc' = [pc EXCEPT ![c] = "done"]
    /\ UNCHANGED <<shown, input, cursor, tokens, open, close>>

\* The lexer is exhausted and the counters agree: Ok(tokens).
ReturnOk(c) ==
    /\ pc[c] = "scan"
    /\ AtEnd(c)
    /\ Balanced(open[c], close[c])
    /\ result' = [result EXCEPT ![c] = [kind |-> "Ok", tokens |-> tokens[c]]]
    /\ pc' = [pc EXCEPT ![c] = "done"]
    /\ UNCHANGED <<shown, input, cursor, tokens, open, close>>

\* The caller formats the tokens of an Ok result with Token's Display.
DisplayTokens(c) ==
    /\ pc[c] = "done"
    /\ result[c].kind = "Ok"
    /\ shown[c].kind = "none"
    /\ shown' = [shown EXCEPT ![c] =
                   [kind |-> "text",
                    texts |-> [i \in 1..Len(result[c].tokens) |->
                                 Token_to_string(result[c].tokens[i])]]]
    /\ UNCHANGED <<input, cursor, tokens, open, close, pc, result>>

Next ==
    \/ \E c \in Calls : SkipWhitespace(c)
    \/ \E c \in Calls : PushToken(c)
    \/ \E c \in Calls : ReturnLexError(c)
    \/ \E c \in Calls : ReturnParenCountMismatch(c)
    \/ \E c \in Calls : ReturnOk(c)
    \/ \E c \in Calls : DisplayTokens(c)

(***************************************************************************)
(* Inputs.                                                                 *)
(***************************************************************************)
\* u16's Display: the decimal digits of n, most significant first.
RECURSIVE to_string(_)
to_string(n) ==
    IF n < 10 THEN <<48 + n>> ELSE Append(to_string(n \div 10), 48 + (n % 10))

\* Pieces that inputs are concatenated from.
Pool ==
    { <<40>>,                      \* (
      <<41>>,                      \* )
      <<48>>,                      \* 0
      <<54, 57>>,                  \* 69
      <<54, 53, 53, 51, 53>>,      \* 65535
      <<54, 53, 53, 51, 54>>,      \* 65536
      <<97, 110, 100>>,            \* and
      <<79, 82>>,                  \* OR
      <<120, 121, 122>>,           \* xyz
      <<32>>,                      \* space
      <<9, 10, 12>>,               \* tab, line feed, form feed
      <<43>>,                      \* +
      <<13>> }                     \* carriage return

RECURSIVE Concats(_)
Concats(n) ==
    IF n = 0 THEN {<<>>}
    ELSE LET shorter == Concats(n - 1)
         IN  shorter \cup {p \o q : p \in shorter, q \in Pool}

\* The inputs of the tests and of the examples of the documentation.
Examples ==
    { <<>>,
      <<40>>,                                          \* (
      <<41>>,                                          \* )
      <<48>>,                                          \* 0
      <<54, 57>>,                                      \* 69
      <<40, 48, 32, 97, 110, 100, 32, 49, 41>>,        \* (0 and 1)
      <<40, 48, 32, 97, 110, 100, 32, 49, 41, 41>>,    \* (0 and 1))
      <<41, 48, 32, 120, 111, 114, 32, 49, 40>>,       \* )0 xor 1(
      <<120, 121, 122>>,                               \* xyz
      <<57, 57, 57, 57, 57>>,                          \* 99999
      <<97, 110, 100, 111, 114>>,                      \* andor
      <<49, 97, 110, 100, 50>>,                        \* 1and2
      <<48, 48, 55>>,                                  \* 007
      <<49, 50>>,                                      \* 12
      <<48, 48, 48, 48, 48, 54, 53, 53, 51, 53>>,      \* 0000065535
      <<48, 48, 48, 54, 53, 53, 51, 54>>,              \* 00065536
      <<40, 32, 120, 121, 122>>,                       \* ( xyz
      <<120, 121, 122, 32, 57, 57, 57, 57, 57>>,       \* xyz 99999
      <<57, 57, 57, 57, 57, 32, 120, 121, 122>>,       \* 99999 xyz
      <<95>>,                                          \* _
      <<233>>,                                         \* e with acute accent
      <<32, 9, 10, 12>> }                              \* whitespace only

\* Every upper/lower-case spelling of the name of every gate.
Spellings(name) ==
    {s \in [1..Len(name) -> 65..122] :
        \A i \in 1..Len(name) : s[i] = name[i] \/ s[i] = name[i] + 32}

GateSpellings == UNION {Spellings(GateName(g)) : g \in Gate}

Inputs == Concats(MaxPieces) \cup Examples \cup GateSpellings

Init == \E s \in Inputs : Start(1 :> s)

Spec == Init /\ [][Next]_vars

\* tokenize is straight-line sequential code: a call that can take a step
\* takes it.
SpecFair == Init /\ [][Next]_vars /\ WF_vars(Next)

\* The decimal strings of all the terminal ids.
DecimalInputs == {to_string(n) : n \in 0..MaxTerminalId}

InitTerminal == \E s \in DecimalInputs \cup Examples : Start(1 :> s)

SpecTerminal == InitTerminal /\ [][Next]_vars

\* Lexemes that the inputs of SpecWs are made of.
WsPool ==
    { <<40>>,                      \* (
      <<41>>,                      \* )
      <<55>>,                      \* 7
      <<111, 114>>,                \* or
      <<120, 121>>,                \* xy
      <<54, 53, 53, 51, 54>>,      \* 65536
      <<43>> }                     \* +

\* seps[1] lexs[1] seps[2] ... lexs[k] seps[k + 1], from lexeme i on.
RECURSIVE JoinFrom(_, _, _)
JoinFrom(lexs, seps, i) ==
    IF i > Len(lexs) THEN seps[i]
    ELSE seps[i] \o lexs[i] \o JoinFrom(lexs, seps, i + 1)

\* Two calls: the second one's input is the first one's with every
\* whitespace run between lexemes replaced by another run, and with
\* whitespace added before and after.
InitWs ==
    \E k \in 0..MaxWsLexemes :
        \E lexs \in [1..k -> WsPool],
           gaps \in [1..(k - 1) -> {<<>>, <<32>>}],
           other \in {<<9>>, <<10, 12>>},
           before, after \in {<<>>, <<32, 12>>} :
            LET seps1 == [i \in 1..(k + 1) |->
                            IF i \in 2..k THEN gaps[i - 1] ELSE <<>>]
                seps2 == [i \in 1..(k + 1) |->
                            IF i = 1 THEN before
                            ELSE IF i = k + 1 THEN after
                            ELSE IF gaps[i - 1] = <<>> THEN <<>> ELSE other]
            IN  Start(<<JoinFrom(lexs, seps1, 1), JoinFrom(lexs, seps2, 1)>>)

SpecWs == InitWs /\ [][Next]_vars

\* Pieces that the inputs of SpecPair are concatenated from.
PairPool ==
    { <<40>>,                      \* (
      <<41>>,                      \* )
      <<55>>,                      \* 7
      <<32, 111, 114, 32>>,        \* " or "
      <<43>> }                     \* +

RECURSIVE PairConcats(_)
PairConcats(n) ==
    IF n = 0 THEN {<<>>}
    ELSE LET shorter == PairConcats(n - 1)
         IN  shorter \cup {p \o q : p \in shorter, q \in PairPool}

\* Two calls on independent inputs, their steps interleaved in any order.
InitPair == \E s, u \in PairConcats(MaxPairPieces) : Start(<<s, u>>)

SpecPair == InitPair /\ [][Next]_vars

\* tokenize run on its own, from offset pos with the tokens and counters
\* so far: what one call returns when nothing else runs.
RECURSIVE tokenize_from(_, _, _, _, _)
tokenize_from(s, pos, toks, o, cl) ==
    IF pos = Len(s)
    THEN IF o # cl
         THEN [kind |-> "Err", err |-> [type |-> "ParenCountMismatch"]]
         ELSE [kind |-> "Ok", tokens |-> toks]
    ELSE LET m == Lex(s, pos)
         IN  IF m.kind = "skip" THEN tokenize_from(s, m.end, toks, o, cl)
             ELSE IF m.kind = "error" THEN [kind |-> "Err", err |-> m.err]
             ELSE tokenize_from(s, m.end, Append(toks, m.token),
                                IF m.token.type = "ParenOpen" THEN o + 1 ELSE o,
                                IF m.token.type = "ParenClose" THEN cl + 1 ELSE cl)

tokenize(s) == tokenize_from(s, 0, <<>>, 0, 0)

(***************************************************************************)
(* Notions the properties are stated in.  They read the input text alone   *)
(* (1-based positions), not the scan.                                      *)
(***************************************************************************)
Class(ch) ==
    IF ch = 40 THEN "open"
    ELSE IF ch = 41 THEN "close"
    ELSE IF ch \in 48..57 THEN "digit"
    ELSE IF ch \in (65..90) \cup (97..122) THEN "letter"
    ELSE IF ch \in {32, 9, 10, 12} THEN "blank"
    ELSE "other"

IsRunClass(k) == k \in {"digit", "letter", "blank"}

\* Position i starts a maximal run of its class, or is a single character
\* that is a lexeme of its own.
RunStart(s, i) ==
    \/ i = 1
    \/ ~IsRunClass(Class(s[i]))
    \/ Class(s[i - 1]) # Class(s[i])

\* The last position of the lexeme that starts at i.
RunLast(s, i) ==
    IF ~IsRunClass(Class(s[i])) THEN i
    ELSE CHOOSE j \in i..Len(s) :
            /\ \A k \in i..j : Class(s[k]) = Class(s[i])
            /\ (j = Len(s) \/ Class(s[j + 1]) # Class(s[i]))

RunText(s, i) == SubSeq(s, i, RunLast(s, i))

\* The start positions of the lexemes: the maximal non-blank runs.
LexemeStarts(s) ==
    {i \in 1..Len(s) : Class(s[i]) # "blank" /\ RunStart(s, i)}

\* A digit run without its leading zeros.
Significant(run) ==
    LET z == CHOOSE k \in 0..Len(run) :
                 /\ \A i \in 1..k : run[i] = 48
                 /\ (k = Len(run) \/ run[k + 1] # 48)
    IN  SubSeq(run, z + 1, Len(run))

\* The decimal value of a digit string of at most 9 digits.
RECURSIVE DecimalValue(_)
DecimalValue(run) ==
    IF run = <<>> THEN 0
    ELSE 10 * DecimalValue(SubSeq(run, 1, Len(run) - 1)) + (run[Len(run)] - 48)

\* The decimal value of the digit run exceeds 65535.
ExceedsTerminalId(run) ==
    LET t == Significant(run)
    IN  Len(t) > 5 \/ (Len(t) = 5 /\ DecimalValue(t) > 65535)

Uppercased(run) ==
    [i \in 1..Len(run) |-> IF run[i] \in 97..122 THEN run[i] - 32 ELSE run[i]]

GateWords == {GateName(g) : g \in Gate}

\* The lexeme that starts at i fails to lex.
Fails(s, i) ==
    LET k == Class(s[i])
    IN  \/ k = "digit" /\ ExceedsTerminalId(RunText(s, i))
        \/ k = "letter" /\ Uppercased(RunText(s, i)) \notin GateWords
        \/ k = "other"

FailingStarts(s) == {i \in LexemeStarts(s) : Fails(s, i)}

FirstFailing(s) == CHOOSE i \in FailingStarts(s) : \A j \in FailingStarts(s) : i <= j

\* The lexical error of the failing lexeme that starts at i.
LexicalError(s, i) ==
    LET k == Class(s[i])
    IN  IF k = "digit" THEN [type |-> "ParseIntError", kind |-> "PosOverflow"]
        ELSE IF k = "letter"
        THEN [type |-> "NoSuchGate", text |-> Uppercased(RunText(s, i))]
        ELSE [type |-> "Other"]

Count(s, ch) == Cardinality({i \in 1..Len(s) : s[i] = ch})

Returned(c) == pc[c] = "done"

Failed(c, e) == result[c] = [kind |-> "Err", err |-> e]

Succeeded(c, toks) == result[c] = [kind |-> "Ok", tokens |-> toks]

ParenCountMismatch == [type |-> "ParenCountMismatch"]

(***************************************************************************)
(* Properties.                                                             *)
(***************************************************************************)

\* C1: when some lexeme of the input fails to lex, tokenize returns the
\* lexical error of a failing lexeme and never ParenCountMismatch, however
\* many '(' and ')' the input holds; ParenCountMismatch is returned only
\* when no lexeme of the input fails.
LexicalErrorBeforeParenCount ==
    \A c \in Calls :
        Returned(c) =>
            LET s == input[c]
            IN  /\ FailingStarts(s) # {} =>
                      /\ result[c].kind = "Err"
                      /\ result[c].err \in {LexicalError(s, i) : i \in FailingStarts(s)}
                      /\ result[c].err # ParenCountMismatch
                /\ Failed(c, ParenCountMismatch) => FailingStarts(s) = {}

\* A call returned a lexical error on an input whose paren counts differ.
LexicalErrorWithUnbalancedParens ==
    \E c \in Calls :
        /\ Returned(c)
        /\ FailingStarts(input[c]) # {}
        /\ Count(input[c], 40) # Count(input[c], 41)
        /\ result[c].kind = "Err"
        /\ result[c].err.type = "NoSuchGate"

\* C2: when every lexeme of the input lexes, tokenize fails with
\* ParenCountMismatch exactly when the number of '(' differs from the
\* number of ')', and otherwise returns the tokens, one per lexeme; only the
\* totals count, not the order of the parens.
ParenCountMismatchIffTotalsDiffer ==
    \A c \in Calls :
        (Returned(c) /\ FailingStarts(input[c]) = {}) =>
            LET s == input[c]
            IN  IF Count(s, 40) # Count(s, 41)
                THEN Failed(c, ParenCountMismatch)
                ELSE /\ result[c].kind = "Ok"
                     /\ result[c].tokens = tokens[c]
                     /\ Len(result[c].tokens) = Cardinality(LexemeStarts(s))

\* "(0 and 1))" returned ParenCountMismatch.
ExtraCloseParenMismatch ==
    \E c \in Calls :
        /\ Returned(c)
        /\ input[c] = <<40, 48, 32, 97, 110, 100, 32, 49, 41, 41>>
        /\ Failed(c, ParenCountMismatch)

\* C3: when a lexeme fails, tokenize returns the error of the leftmost
\* failing lexeme and nothing else: the tokens pushed are those of the
\* lexemes before it, the cursor stands right after it, and the result
\* carries no token sequence.
FailFastAtLeftmostError ==
    \A c \in Calls :
        (Returned(c) /\ FailingStarts(input[c]) # {}) =>
            LET s == input[c]
                i == FirstFailing(s)
            IN  /\ Failed(c, LexicalError(s, i))
                /\ DOMAIN result[c] = {"kind", "err"}
                /\ Len(tokens[c]) = Cardinality({j \in LexemeStarts(s) : j < i})
                /\ cursor[c] = RunLast(s, i)

\* A call returned on an input with two failing lexemes of different errors.
ReturnedWithTwoDefects ==
    \E c \in Calls :
        /\ Returned(c)
        /\ \E i, j \in FailingStarts(input[c]) :
              /\ i < j
              /\ LexicalError(input[c], i) # LexicalError(input[c], j)
              /\ Failed(c, LexicalError(input[c], i))

\* C4: for every n in 0..65535, tokenize of the decimal string of n returns
\* exactly [TerminalId(n)].
DecimalStringLexesToTerminalId ==
    \A c \in Calls :
        Returned(c) =>
            LET s == input[c]
            IN  (/\ Len(s) \in 1..5
                 /\ \A i \in 1..Len(s) : s[i] \in 48..57
                 /\ DecimalValue(s) <= 65535
                 /\ to_string(DecimalValue(s)) = s)
                => Succeeded(c, <<[type |-> "TerminalId", id |-> DecimalValue(s)]>>)

\* "65535" returned [TerminalId(65535)].
LargestTerminalIdLexed ==
    \E c \in Calls :
        /\ Returned(c)
        /\ input[c] = to_string(65535)
        /\ Succeeded(c, <<[type |-> "TerminalId", id |-> 65535]>>)

\* C5 as stated: every maximal digit run whose value exceeds 65535 makes
\* tokenize fail with ParseIntError.
EveryOverflowingRunGivesParseIntError ==
    \A c \in Calls :
        Returned(c) =>
            \A i \in LexemeStarts(input[c]) :
                (Class(input[c][i]) = "digit" /\ Fails(input[c], i)) =>
                    /\ result[c].kind = "Err"
                    /\ result[c].err.type = "ParseIntError"

\* C5, amended: a maximal digit run whose value exceeds 65535 makes tokenize
\* fail with ParseIntError when no lexeme before it fails; its value is not
\* wrapped, truncated or split into TerminalId tokens.
LeftmostOverflowingRunGivesParseIntError ==
    \A c \in Calls :
        (Returned(c) /\ FailingStarts(input[c]) # {}) =>
            LET s == input[c]
                i == FirstFailing(s)
            IN  Class(s[i]) = "digit" =>
                    /\ Failed(c, [type |-> "ParseIntError", kind |-> "PosOverflow"])
                    /\ Len(tokens[c]) = Cardinality({j \in LexemeStarts(s) : j < i})

\* "65536" returned ParseIntError.
OverflowByOneRejected ==
    \E c \in Calls :
        /\ Returned(c)
        /\ input[c] = <<54, 53, 53, 51, 54>>
        /\ result[c].kind = "Err"
        /\ result[c].err.type = "ParseIntError"

\* C6: every upper/lower-case spelling of each of the six gate names lexes
\* to exactly [Gate(v)], v the variant of that name.
EverySpellingLexesToGate ==
    \A c \in Calls :
        Returned(c) =>
            \A g \in Gate :
                input[c] \in Spellings(GateName(g)) =>
                    Succeeded(c, <<[type |-> "Gate", gate |-> g]>>)

\* "nAnD" returned [Gate(Nand)].
MixedCaseNandLexed ==
    \E c \in Calls :
        /\ Returned(c)
        /\ input[c] = <<110, 65, 110, 68>>
        /\ Succeeded(c, <<[type |-> "Gate", gate |-> "Nand"]>>)

\* C7 as stated: every maximal letter run that is no gate name makes
\* tokenize fail with NoSuchGate of the uppercased run.
EveryUnknownWordGivesNoSuchGate ==
    \A c \in Calls :
        Returned(c) =>
            \A i \in LexemeStarts(input[c]) :
                (Class(input[c][i]) = "letter" /\ Fails(input[c], i)) =>
                    Failed(c, [type |-> "NoSuchGate",
                               text |-> Uppercased(RunText(input[c], i))])

\* C7, amended: a maximal letter run that is no gate name makes tokenize
\* fail with NoSuchGate of the uppercased text of the whole run when no
\* lexeme before it fails.
LeftmostUnknownWordGivesNoSuchGate ==
    \A c \in Calls :
        (Returned(c) /\ FailingStarts(input[c]) # {}) =>
            LET s == input[c]
                i == FirstFailing(s)
            IN  Class(s[i]) = "letter" =>
                    Failed(c, [type |-> "NoSuchGate",
                               text |-> Uppercased(RunText(s, i))])

\* "xyz" returned NoSuchGate("XYZ").
LowercaseUnknownWordRejected ==
    \E c \in Calls :
        /\ Returned(c)
        /\ input[c] = <<120, 121, 122>>
        /\ Failed(c, [type |-> "NoSuchGate", text |-> <<88, 89, 90>>])

\* C8: when the first failing lexeme is a character that is no paren, digit,
\* letter, space, tab, line feed or form feed, tokenize fails with Other.
UnmatchedCharacterGivesOther ==
    \A c \in Calls :
        (Returned(c) /\ FailingStarts(input[c]) # {}) =>
            (Class(input[c][FirstFailing(input[c])]) = "other"
                => Failed(c, [type |-> "Other"]))

\* An input whose first failing lexeme is a carriage return returned Other.
CarriageReturnRejected ==
    \E c \in Calls :
        /\ Returned(c)
        /\ FailingStarts(input[c]) # {}
        /\ input[c][FirstFailing(input[c])] = 13
        /\ Failed(c, [type |-> "Other"])

\* The text with its leading and trailing blanks dropped and every other
\* blank run replaced by one space, from position i on.
RECURSIVE SqueezeFrom(_, _)
SqueezeFrom(s, i) ==
    IF i > Len(s) THEN <<>>
    ELSE IF Class(s[i]) # "blank" THEN <<s[i]>> \o SqueezeFrom(s, i + 1)
    ELSE IF RunStart(s, i) /\ i # 1 /\ RunLast(s, i) # Len(s)
         THEN <<32>> \o SqueezeFrom(s, i + 1)
         ELSE SqueezeFrom(s, i + 1)

\* The two texts differ only in their whitespace runs: blanks before the
\* first and after the last lexeme, and which blanks separate two lexemes.
SameUpToWhitespace(s, t) == SqueezeFrom(s, 1) = SqueezeFrom(t, 1)

\* C9: whitespace never changes the result: two inputs that differ only in
\* the whitespace runs between lexemes (each replaced by another non-empty
\* run) and in whitespace before the first and after the last lexeme give
\* the same result, token sequence or error; an input of whitespace only
\* gives the empty sequence, and a returned sequence holds one token per
\* non-blank lexeme, none for whitespace.
WhitespaceNeverChangesResult ==
    /\ \A c, d \in Calls :
          (Returned(c) /\ Returned(d) /\ SameUpToWhitespace(input[c], input[d]))
              => result[c] = result[d]
    /\ \A c \in Calls :
          (Returned(c) /\ \A i \in 1..Len(input[c]) : Class(input[c][i]) = "blank")
              => Succeeded(c, <<>>)
    /\ \A c \in Calls :
          (Returned(c) /\ result[c].kind = "Ok")
              => Len(result[c].tokens) = Cardinality(LexemeStarts(input[c]))

\* Two calls returned the same two tokens on inputs that differ in their
\* whitespace, form feeds among it.
SameTokensDifferentWhitespace ==
    \E c, d \in Calls :
        /\ Returned(c) /\ Returned(d)
        /\ input[c] # input[d]
        /\ SameUpToWhitespace(input[c], input[d])
        /\ Count(input[c], 32) > 0
        /\ Count(input[d], 12) > 0
        /\ result[c].kind = "Ok"
        /\ Len(result[c].tokens) = 2
        /\ result[d] = result[c]

\* C10: tokenize of the empty input returns the empty token sequence, with
\* both counters zero.
EmptyInputGivesEmptySequence ==
    \A c \in Calls :
        (Returned(c) /\ input[c] = <<>>) =>
            /\ Succeeded(c, <<>>)
            /\ open[c] = 0
            /\ close[c] = 0

\* The empty input returned.
EmptyInputReturned ==
    \E c \in Calls :
        /\ Returned(c)
        /\ input[c] = <<>>
        /\ result[c].kind = "Ok"

\* The text the interface description gives for a token: the upper-case
\* name of the gate, the paren character, the decimal digits of the id.
DescribedText(token) ==
    CASE token.type = "Gate"       -> GateName(token.gate)
      [] token.type = "ParenOpen"  -> <<40>>
      [] token.type = "ParenClose" -> <<41>>
      [] token.type = "TerminalId" -> to_string(token.id)

\* C11: Display renders Gate(v) as the upper-case name of v, ParenOpen as
\* "(", ParenClose as ")" and TerminalId(n) as the decimal digits of n.
TokenDisplayIsDescribedText ==
    \A c \in Calls :
        shown[c].kind = "text" =>
            \A i \in 1..Len(result[c].tokens) :
                shown[c].texts[i] = DescribedText(result[c].tokens[i])

\* The state of call c.
CallState(c) ==
    <<cursor[c], tokens[c], open[c], close[c], pc[c], result[c], shown[c]>>

\* A step of call c while its lexer has input left moves the cursor forward
\* by at least one character and not past the end; any other step of c (the
\* return after the last match, the formatting) leaves the cursor alone.
CursorAdvances ==
    \A c \in Calls :
        CallState(c)' # CallState(c) =>
            IF pc[c] = "scan" /\ cursor[c] < Len(input[c])
            THEN cursor[c] < cursor'[c] /\ cursor'[c] <= Len(input[c])
            ELSE cursor'[c] = cursor[c]

\* C12: on every finite input tokenize terminates with a token sequence or
\* an error: every scan step (a token, a skipped whitespace run, an error)
\* consumes at least one character, so the cursor strictly advances, there
\* are never more tokens than characters consumed, and the call returns.
ScanConsumesAndTerminates ==
    /\ [][CursorAdvances]_vars
    /\ [](\A c \in Calls : Len(tokens[c]) <= cursor[c] /\ cursor[c] <= Len(input[c]))
    /\ <>(\A c \in Calls : Returned(c) /\ result[c].kind \in {"Ok", "Err"})

\* "(0 and 1)" returned with all nine characters consumed.
WholeInputConsumed ==
    \E c \in Calls :
        /\ Returned(c)
        /\ input[c] = <<40, 48, 32, 97, 110, 100, 32, 49, 41>>
        /\ cursor[c] = 9
        /\ Len(tokens[c]) = 5

\* A step changes the state of at most one call, and never an input.
OneCallPerStep ==
    /\ input' = input
    /\ \A c, d \in Calls :
          (CallState(c)' # CallState(c) /\ CallState(d)' # CallState(d)) => c = d

\* C13: two calls on independent inputs, their steps interleaved in any
\* order, each return what the call returns when run alone; a step of one
\* call changes no state of the other.
InterleavedCallsAreIndependent ==
    /\ [][OneCallPerStep]_vars
    /\ [](\A c \in Calls : Returned(c) => result[c] = tokenize(input[c]))

\* One call returned its tokens while the other, on another input, was in
\* the middle of its scan with a different paren count.
ReturnedWhileOtherScans ==
    \E c, d \in Calls :
        /\ Returned(c)
        /\ result[c].kind = "Ok"
        /\ result[c] = tokenize(input[c])
        /\ Len(tokens[c]) >= 2
        /\ pc[d] = "scan"
        /\ 0 < cursor[d] /\ cursor[d] < Len(input[d])
        /\ open[d] # open[c]

TerminalIdToken(n) == [type |-> "TerminalId", id |-> n]

GateToken(g) == [type |-> "Gate", gate |-> g]

\* C14: lexemes are maximal runs per character class: the cursor always
\* stands where a run starts (or at the end), the tokens pushed are as many
\* as the lexemes started so far, a digit run next to a letter run is two
\* lexemes; "1and2" gives [TerminalId(1), Gate(And), TerminalId(2)], "12"
\* gives [TerminalId(12)] and "andor" fails with NoSuchGate("ANDOR").
MaximalMunchPerClass ==
    \A c \in Calls :
        LET s == input[c]
        IN  /\ cursor[c] < Len(s) => RunStart(s, cursor[c] + 1)
            /\ pc[c] = "scan" =>
                  Len(tokens[c]) = Cardinality({j \in LexemeStarts(s) : j <= cursor[c]})
            /\ (Returned(c) /\ s = <<49, 97, 110, 100, 50>>) =>
                  Succeeded(c, <<TerminalIdToken(1), GateToken("And"), TerminalIdToken(2)>>)
            /\ (Returned(c) /\ s = <<49, 50>>) =>
                  Succeeded(c, <<TerminalIdToken(12)>>)
            /\ (Returned(c) /\ s = <<97, 110, 100, 111, 114>>) =>
                  Failed(c, [type |-> "NoSuchGate", text |-> <<65, 78, 68, 79, 82>>])

\* "1and2" returned its three tokens.
AdjacentRunsSplit ==
    \E c \in Calls :
        /\ Returned(c)
        /\ input[c] = <<49, 97, 110, 100, 50>>
        /\ result[c].kind = "Ok"
        /\ Len(result[c].tokens) = 3

\* The token of the lexeme that starts at i, a lexeme that does not fail.
TokenOf(s, i) ==
    LET k == Class(s[i])
    IN  IF k = "open" THEN [type |-> "ParenOpen"]
        ELSE IF k = "close" THEN [type |-> "ParenClose"]
        ELSE IF k = "digit"
        THEN TerminalIdToken(DecimalValue(Significant(RunText(s, i))))
        ELSE GateToken(CHOOSE g \in Gate : GateName(g) = Uppercased(RunText(s, i)))

\* The tokens of the lexemes that start at positions i..last, in order, up
\* to the first lexeme that fails.
RECURSIVE TokensFrom(_, _, _)
TokensFrom(s, i, last) ==
    IF i > last THEN <<>>
    ELSE IF ~(Class(s[i]) # "blank" /\ RunStart(s, i)) THEN TokensFrom(s, i + 1, last)
    ELSE IF Fails(s, i) THEN <<>>
    ELSE <<TokenOf(s, i)>> \o TokensFrom(s, RunLast(s, i) + 1, last)

\* C15: after every step the accumulated sequence is the tokens of the
\* lexemes of the input prefix consumed so far, in input order; on success
\* the returned sequence holds exactly one token per non-whitespace lexeme,
\* nothing dropped, duplicated or reordered.
TokensFollowInputOrder ==
    \A c \in Calls :
        LET s == input[c]
        IN  /\ tokens[c] = TokensFrom(s, 1, cursor[c])
            /\ result[c].kind = "Ok" =>
                  /\ result[c].tokens = TokensFrom(s, 1, Len(s))
                  /\ Len(result[c].tokens) = Cardinality(LexemeStarts(s))

\* "(0 and 1)" returned [ParenOpen, TerminalId(0), Gate(And), TerminalId(1),
\* ParenClose].
LogicStringLexed ==
    \E c \in Calls :
        /\ Returned(c)
        /\ input[c] = <<40, 48, 32, 97, 110, 100, 32, 49, 41>>
        /\ Succeeded(c, <<[type |-> "ParenOpen"], TerminalIdToken(0), GateToken("And"),
                          TerminalIdToken(1), [type |-> "ParenClose"]>>)

\* The number of tokens of the given type in a token sequence.
CountType(toks, type) == Cardinality({i \in 1..Len(toks) : toks[i].type = type})

\* A step of call c that pushes a token appends it and counts it when it is
\* a paren; a step that pushes nothing (a skipped whitespace run, a failing
\* lexeme, a return) changes neither counter.
CountersStep ==
    \A c \in Calls :
        IF tokens'[c] = tokens[c]
        THEN open'[c] = open[c] /\ close'[c] = close[c]
        ELSE LET pushed == tokens'[c][Len(tokens'[c])]
             IN  /\ tokens'[c] = Append(tokens[c], pushed)
                 /\ open'[c] = open[c] + (IF pushed.type = "ParenOpen" THEN 1 ELSE 0)
                 /\ close'[c] = close[c] + (IF pushed.type = "ParenClose" THEN 1 ELSE 0)

\* C16: at every step of the scan loop open is the number of ParenOpen
\* tokens accumulated and close the number of ParenClose tokens; tokens of
\* the other kinds and skipped whitespace change neither counter, and a
\* failing lexeme changes neither counter nor the sequence.
CountersMatchParenTokens ==
    /\ [](\A c \in Calls :
            /\ open[c] = CountType(tokens[c], "ParenOpen")
            /\ close[c] = CountType(tokens[c], "ParenClose")
            /\ (Returned(c) /\ FailingStarts(input[c]) # {}) =>
                  tokens[c] = TokensFrom(input[c], 1, FirstFailing(input[c]) - 1))
    /\ [][CountersStep]_vars

\* A scan that has pushed three tokens, one of each paren among them.
BothParensCounted ==
    \E c \in Calls :
        /\ pc[c] = "scan"
        /\ Len(tokens[c]) = 3
        /\ open[c] = 1
        /\ close[c] = 1

\* C17: the range check of a digit run is by value, not by length: an input
\* that is one digit run, leading zeros included, whose value is at most
\* 65535 lexes to the single token TerminalId(value), so that "007" gives
\* [TerminalId(7)] and "0000065535" gives [TerminalId(65535)].
LeadingZerosLexByValue ==
    \A c \in Calls :
        LET s == input[c]
        IN  /\ (/\ Returned(c)
                /\ Len(s) > 0
                /\ \A i \in 1..Len(s) : s[i] \in 48..57
                /\ ~ExceedsTerminalId(s))
               => Succeeded(c, <<TerminalIdToken(DecimalValue(Significant(s)))>>)
            /\ (Returned(c) /\ s = <<48, 48, 55>>) => Succeeded(c, <<TerminalIdToken(7)>>)
            /\ (Returned(c) /\ s = <<48, 48, 48, 48, 48, 54, 53, 53, 51, 53>>)
                  => Succeeded(c, <<TerminalIdToken(65535)>>)

\* "0000065535", ten digits, returned [TerminalId(65535)].
PaddedLargestTerminalIdLexed ==
    \E c \in Calls :
        /\ Returned(c)
        /\ input[c] = <<48, 48, 48, 48, 48, 54, 53, 53, 51, 53>>
        /\ result[c].kind = "Ok"
        /\ result[c].tokens[1].id = 65535

====
